---- MODULE Spec2Model ----
(***************************************************************************)
(* A model of the Extractor browser automation: the action interpreter     *)
(* (execute_actions / main / close_browser), the click primitive, the      *)
(* download interception handler, _download_file and the two upload sinks  *)
(* (BitrixManager, PostgresManager).  Each component has its own           *)
(* specification over its own group of variables; the other groups stay    *)
(* at their initial values.                                                *)
(***************************************************************************)
EXTENDS Integers, Sequences, FiniteSets, TLC

VARIABLES
    \* ---- run: BrowserAutomation.execute_actions, main, close_browser
    actions,      \* config['actions'], fixed at load time
    closeAfter,   \* config['site']['close_browser_after_completion']
    rpc,          \* position of the run
    ai,           \* index of the action the for loop is at
    step,         \* the primitive in flight within action ai
    events,       \* primitive invocations: <<index, primitive, "start"|"end">>
    href,         \* self.playwright/browser/context/page is not None
    res,          \* the underlying resource: "none" | "open" | "closed"
    closeLog,     \* resources in the order their close() completed
    closeCalls,   \* number of close()/stop() calls issued per handle
    exc,          \* exception in flight: "none" | "exception" | "cancel"
    caught,       \* main's except clause ran
    errAt,        \* index of the action that raised (0: none, -1: setup/goto)
    cbCalls,      \* number of close_browser calls of the run
    outLog,       \* what each ended primitive returned: <<index, primitive, out>>
    rlog,         \* error entries execute_actions wrote: <<index, entry>>
    \* ---- click: BrowserAutomation.click_element
    selector,     \* the selector list (or a one-element list for a string)
    isList,       \* isinstance(selector, list)
    waitFor,      \* wait_for
    cpc,          \* position inside click_element
    ck,           \* index of the selector the current loop is at
    waitLog,      \* wait_for_selector attempts: [sel, ok]
    clickLog,     \* page.click attempts: [sel, ok]
    \* ---- route: BrowserAutomation._wait_for_download_url
    wpc,          \* position inside _wait_for_download_url
    installed,    \* handle_route is registered on the page
    download_url, \* the nonlocal download_url (None or a URL)
    elapsed,      \* time.time() - start_time, in poll intervals
    reqLog,       \* requests issued by the page: [url, disp, handled]
    returned_url, \* the value _wait_for_download_url returned
    \* ---- download: BrowserAutomation._download_file
    dpc,          \* position inside _download_file
    dn,           \* number of the download action of the run
    disk,         \* per download, its file: "absent" | "partial" | "complete"
    chunksLeft,   \* chunks the response still has to deliver
    dresult,      \* per download: "pending" | "path" | "None"
    dlog,         \* per download, the error log entries written
    \* ---- sink: BitrixManager.upload / PostgresManager.upload
    sink,         \* "crm" | "specialists" | "analytics"
    spc,          \* position inside upload
    batch,        \* dedupe keys of the rows of the DataFrame, in row order
    crm,          \* registration numbers of the deals present in the CRM
    dbKeys,       \* material numbers persisted in the database
    dbCount,      \* number of rows persisted in the database
    dbBefore,     \* dbKeys and dbCount when upload was called
    storeAtQuery, \* the keys present in the store when the dedupe query ran
    existing,     \* uploaded_by_reg_num / existing_numbers
    todo,         \* records_to_upload not yet POSTed
    submitted,    \* records POSTed or added to the session: <<row, key>>
    pending,      \* objects added to the session and not yet committed
    slog,         \* entries written to the log by upload and the dedupe query
    pout,         \* per outcome, the number of POSTs that ended with it
    plog,         \* per outcome, the number of entries written to the log for it
    sraised,       \* upload raised to its caller
    \* ---- input: BrowserAutomation.input_text
    iselector,    \* the selector list input_text was given
    iwaitFor,     \* wait_for
    isDatetime,   \* is_datetime_field
    ipc,          \* position inside input_text
    ik,           \* index of the selector the current loop is at
    iwaitLog,     \* wait_for_selector attempts: [sel, ok]
    fillLog,      \* page.fill / page.click / page.type attempts: [sel, op, ok]
    entered,      \* selectors whose element received the text
    ilog,          \* entries input_text wrote to the log
    \* ---- manage: BrowserAutomation._manage_uploaded_files
    mfile,        \* the file name, as the sequence of its words
    mpc,          \* position inside _manage_uploaded_files
    mparams,      \* to_bitrix, is_analytics, skiprows, bottom_drops
    mi,           \* index of the next operation of the call
    csv,          \* the downloaded CSV: "present" | "absent"
    xlsx,         \* the converted spreadsheet: "absent" | "present"
    sinkCalls,    \* the sink uploads called: "crm" | "analytics" | "specialists"
    mops,          \* the operations of the call that completed, in order
    \* ---- map: the column mapping at the head of each sink's upload
    mapsink,      \* "crm" | "analytics" | "specialists"
    kpc,          \* position inside the mapping: "keep" | "rename" | "done"
    df_columns,   \* df.columns: the labels (then fields) of the frame, in order
    columns_to_keep, \* the list columns_to_keep
    source_columns, \* the labels of the frame upload was given
    \* ---- trigger: the download branch of execute_actions up to the wait
    tpc,          \* position inside the branch: "click" | "route_all" | "wait"
    clickReq      \* the request the click makes the page issue:
                  \* "none" | "pending" | "seen" | "missed"

None == "None"
\* download_url = None: no URL (falsy, as the empty string is).
NoUrl == <<>>

varsRun == <<actions, closeAfter, rpc, ai, step, events, href, res, closeLog,
             closeCalls, exc, caught, errAt, cbCalls, outLog, rlog>>
varsClick == <<selector, isList, waitFor, cpc, ck, waitLog, clickLog>>
varsRoute == <<wpc, installed, download_url, elapsed, reqLog, returned_url>>
varsDownload == <<dpc, dn, disk, chunksLeft, dresult, dlog>>
varsSink == <<sink, spc, batch, crm, dbKeys, dbCount, dbBefore, storeAtQuery,
              existing, todo, submitted, pending, slog, pout, plog, sraised>>
varsInput == <<iselector, iwaitFor, isDatetime, ipc, ik, iwaitLog, fillLog, entered, ilog>>
varsManage == <<mfile, mpc, mparams, mi, csv, xlsx, sinkCalls, mops>>
varsMap == <<mapsink, kpc, df_columns, columns_to_keep, source_columns>>
varsTrigger == <<tpc, clickReq>>
vars == <<varsRun, varsClick, varsRoute, varsDownload, varsSink, varsInput, varsManage, varsMap, varsTrigger>>

\* ---------------------------------------------------------------- bounds
MaxActions == 2
MaxSelectors == 3
TimeoutTicks == 3
MaxRequests == 3
MaxChunks == 2
MaxDownloads == 2
MaxBatch == 3
MaxNameParts == 2
MaxCols == 2

\* ------------------------------------------------------------ sequences
RECURSIVE SeqsUpTo(_, _)
SeqsUpTo(S, n) ==
    IF n = 0 THEN {<<>>}
    ELSE LET shorter == SeqsUpTo(S, n - 1)
         IN shorter \cup {Append(s, x) : s \in {t \in shorter : Len(t) = n - 1}, x \in S}

\* ===================================================================
\*  run: execute_actions, main, close_browser      (src/app/script.py)
\* ===================================================================
AcquireOrder == <<"playwright", "browser", "context", "page">>
CloseOrder == <<"page", "context", "browser", "playwright">>
Handles == {"playwright", "browser", "context", "page"}

\* The actions a configuration may declare.  "wait" stands for every type
\* the dispatch does not know.  value: how an input action's value resolves.
ActionKinds ==
    [type : {"click", "download"}, hasSel : BOOLEAN, value : {"na"}]
    \cup [type : {"input"}, hasSel : {TRUE},
          value : {"ref", "ref_missing", "date", "date_missing"}]
    \cup [type : {"wait"}, hasSel : BOOLEAN, value : {"na"}]

\* The configuration mapping, as the set of the key paths the program reads
\* from it (self.config['site']['url'], self.config['logging'], ...).
ConfigPaths == {<<"site">>, <<"site", "url">>, <<"logging">>, <<"logging", "level">>,
                <<"other">>, <<"actions">>}

\* The keys of self.dates_map.
DatesMap == {"yesterday", "three_weeks_before", "today"}

\* The value each kind of input action carries: a "${a.b}" reference (ref,
\* with the dotted path split at the dots) or any other value (key).
InputValue(kind) ==
    CASE kind = "ref" -> [ref |-> TRUE, path |-> <<"site", "url">>, key |-> ""]
      [] kind = "ref_missing" -> [ref |-> TRUE, path |-> <<"site", "password">>, key |-> ""]
      [] kind = "date" -> [ref |-> FALSE, path |-> <<>>, key |-> "yesterday"]
      [] kind = "date_missing" -> [ref |-> FALSE, path |-> <<>>, key |-> "tomorrow"]
      [] OTHER -> [ref |-> FALSE, path |-> <<>>, key |-> ""]

\* value = self.config; for key in config_path: value = value[key] -- each
\* step of the walk raises KeyError when the key is absent; any other value
\* is looked up in dates_map.
Resolves(v) ==
    IF v.ref THEN \A n \in 1..Len(v.path) : SubSeq(v.path, 1, n) \in ConfigPaths
    ELSE v.key \in DatesMap

FirstStepFillsUnresolved(a) ==
    IF a.type = "click" /\ a.hasSel THEN "click_element"
    ELSE IF a.type = "input" /\ a.hasSel THEN "input_text"
    ELSE IF a.type = "download"
         THEN IF a.hasSel THEN "click_element" ELSE "_download_file"
    ELSE "none"

FirstStepRejectsUnknown(a) ==
    IF a.type = "click" /\ a.hasSel THEN "click_element"
    ELSE IF a.type = "input" /\ a.hasSel
         THEN IF ~Resolves(InputValue(a.value)) THEN "lookup_error"
              ELSE "input_text"
    ELSE IF a.type = "download"
         THEN IF a.hasSel THEN "click_element" ELSE "_download_file"
    ELSE IF a.type = "click" THEN "none"
    ELSE "lookup_error"

\* The dispatch of one loop iteration: the first primitive the action calls,
\* "lookup_error" when resolving the value raises, "none" when no branch matches.
FirstStep(a) ==
    IF a.type = "click" /\ a.hasSel THEN "click_element"
    ELSE IF a.type = "input" /\ a.hasSel
         THEN IF ~Resolves(InputValue(a.value)) THEN "lookup_error"
              ELSE "input_text"
    ELSE IF a.type = "download"
         THEN IF a.hasSel THEN "click_element" ELSE "_download_file"
    ELSE "none"

NextStepIgnoresResult(a, p, out) ==
    IF a.type = "download" /\ p = "click_element" THEN "_download_file"
    ELSE IF a.type = "download" /\ p = "_download_file"
         THEN "_manage_uploaded_files"
    ELSE "none"

\* What follows primitive p of action a when it returned out ("none": the
\* iteration is over).
NextStep(a, p, out) ==
    IF a.type = "download" /\ p = "click_element" THEN "_download_file"
    ELSE IF a.type = "download" /\ p = "_download_file" /\ out = "file"
         THEN "_manage_uploaded_files"
    ELSE "none"

\* The outcomes a primitive can have.  click_element and input_text return or
\* raise; _download_file catches every Exception and returns a path or None;
\* _manage_uploaded_files is synchronous and returns or raises; an awaited
\* primitive can also be cancelled (CancelledError is not an Exception).
Outcomes(p) ==
    IF p = "_download_file" THEN {"file", "none", "cancel"}
    ELSE IF p = "_manage_uploaded_files" THEN {"ok", "raise"}
    ELSE {"ok", "raise", "cancel"}

AfterRaiseContinue == "loop"
\* The loop body has no try of its own: an exception raised in an iteration
\* leaves the loop for the except clause of execute_actions (log, raise) and
\* its finally.
AfterRaise == "finally"

NextIndexStuck(i) == i
\* for action in self.config['actions']: the loop moves to the next element.
NextIndex(i) == i + 1

\* close_browser: closes page, context, browser, playwright in this order,
\* each only if its handle is set, clearing the handle after the close.  The
\* close at position failAt raises (failAt = 0: none does); the except clause
\* logs it and the handles from there on are left as they are.
CanFailAt(failAt) == IF failAt = 0 THEN TRUE ELSE href[CloseOrder[failAt]]
ClosedBy(failAt) ==
    {CloseOrder[j] : j \in {k \in 1..4 : href[CloseOrder[k]] /\ (failAt = 0 \/ k < failAt)}}
CalledBy(failAt) ==
    ClosedBy(failAt) \cup (IF failAt = 0 THEN {} ELSE {CloseOrder[failAt]})
ClearedByNone(failAt) == {}
\* self.page = None, ... : the handles cleared are those whose close returned.
ClearedBy(failAt) == ClosedBy(failAt)
CloseBrowser(failAt) ==
    /\ CanFailAt(failAt)
    /\ cbCalls' = cbCalls + 1
    /\ href' = [h \in Handles |-> IF h \in ClearedBy(failAt) THEN FALSE ELSE href[h]]
    /\ res' = [h \in Handles |-> IF h \in ClosedBy(failAt) THEN "closed" ELSE res[h]]
    /\ closeLog' = closeLog \o SelectSeq(CloseOrder, LAMBDA h : h \in ClosedBy(failAt))
    /\ closeCalls' = [h \in Handles |->
                        IF h \in CalledBy(failAt) THEN closeCalls[h] + 1 ELSE closeCalls[h]]

notRun == <<varsClick, varsRoute, varsDownload, varsSink, varsInput, varsManage, varsMap, varsTrigger>>

\* setup_browser and page.goto: the first n of playwright, browser, context,
\* page are acquired; n < 4 means the next acquisition raised, n = 4 with
\* gotoOk = FALSE means page.goto raised.
SetupBrowser ==
    /\ rpc = "start"
    /\ \E n \in 0..4, gotoOk \in BOOLEAN :
        /\ (n < 4 => ~gotoOk)
        /\ href' = [h \in Handles |-> \E j \in 1..n : AcquireOrder[j] = h]
        /\ res' = [h \in Handles |->
                     IF \E j \in 1..n : AcquireOrder[j] = h THEN "open" ELSE "none"]
        /\ IF gotoOk
           THEN rpc' = "loop" /\ exc' = "none" /\ errAt' = 0
           ELSE rpc' = "finally" /\ exc' = "exception" /\ errAt' = -1
    /\ ai' = 1
    /\ UNCHANGED <<actions, closeAfter, step, events, closeLog, closeCalls, caught,
                   cbCalls, outLog, rlog, notRun>>

\* One iteration's dispatch on action['type'] and selector.
BeginAction ==
    /\ rpc = "loop"
    /\ ai <= Len(actions)
    /\ LET first == FirstStep(actions[ai])
       IN  \/ /\ first = "none"
              /\ ai' = NextIndex(ai)
              /\ UNCHANGED <<rpc, step, exc, errAt>>
           \/ /\ first = "lookup_error"
              /\ rpc' = AfterRaise /\ exc' = "exception" /\ errAt' = ai
              /\ UNCHANGED <<ai, step>>
           \/ /\ first \notin {"none", "lookup_error"}
              /\ rpc' = "call" /\ step' = first
              /\ UNCHANGED <<ai, exc, errAt>>
    /\ UNCHANGED <<actions, closeAfter, events, href, res, closeLog, closeCalls, caught,
                   cbCalls, outLog, rlog, notRun>>

\* The interpreter calls the primitive.
StartPrim ==
    /\ rpc = "call"
    /\ events' = Append(events, <<ai, step, "start">>)
    /\ rpc' = "prim"
    /\ UNCHANGED <<actions, closeAfter, ai, step, href, res, closeLog, closeCalls,
                   exc, caught, errAt, cbCalls, outLog, rlog, notRun>>

\* The awaited primitive completes: it returns, raises or is cancelled.
EndPrim ==
    /\ rpc = "prim"
    /\ events' = Append(events, <<ai, step, "end">>)
    /\ \E out \in Outcomes(step) :
        /\ outLog' = Append(outLog, <<ai, step, out>>)
        /\ rlog' = IF step = "_download_file" /\ out = "none"
                   THEN Append(rlog, <<ai, "error_download_failed">>) ELSE rlog
        /\ \/ /\ out \in {"raise", "cancel"}
              /\ exc' = (IF out = "raise" THEN "exception" ELSE "cancel")
              /\ errAt' = (IF out = "raise" THEN ai ELSE errAt)
              /\ rpc' = AfterRaise
              /\ UNCHANGED <<ai, step>>
           \/ /\ out \notin {"raise", "cancel"}
              /\ LET nxt == NextStep(actions[ai], step, out)
                 IN  IF nxt = "none"
                     THEN rpc' = "loop" /\ ai' = NextIndex(ai) /\ step' = "none"
                     ELSE rpc' = "call" /\ step' = nxt /\ ai' = ai
              /\ exc' = "none"
              /\ errAt' = errAt
    /\ UNCHANGED <<actions, closeAfter, href, res, closeLog, closeCalls, caught,
                   cbCalls, notRun>>

\* After the loop: both branches of close_browser_after_completion end in
\* close_browser (the second after a sleep).
AfterLoop ==
    /\ rpc = "loop"
    /\ ai > Len(actions)
    /\ \E failAt \in 0..4 : CloseBrowser(failAt)
    /\ rpc' = "finally"
    /\ UNCHANGED <<actions, closeAfter, ai, step, events, exc, caught, errAt, outLog,
                   rlog, notRun>>

\* finally: close_browser only if close_browser_after_completion.
FinallyClose ==
    /\ rpc = "finally"
    /\ closeAfter
    /\ \E failAt \in 0..4 : CloseBrowser(failAt)
    /\ rpc' = "main"
    /\ UNCHANGED <<actions, closeAfter, ai, step, events, exc, caught, errAt, outLog,
                   rlog, notRun>>

FinallySkip ==
    /\ rpc = "finally"
    /\ ~closeAfter
    /\ rpc' = "main"
    /\ UNCHANGED <<actions, closeAfter, ai, step, events, href, res, closeLog,
                   closeCalls, exc, caught, errAt, cbCalls, outLog, rlog, notRun>>

\* main: except Exception logs and calls close_browser.
MainExcept ==
    /\ rpc = "main"
    /\ exc = "exception"
    /\ \E failAt \in 0..4 : CloseBrowser(failAt)
    /\ caught' = TRUE
    /\ rpc' = "done"
    /\ UNCHANGED <<actions, closeAfter, ai, step, events, exc, errAt, outLog, rlog,
                   notRun>>

\* main returns, or a cancellation passes through its except Exception.
MainReturn ==
    /\ rpc = "main"
    /\ exc # "exception"
    /\ rpc' = "done"
    /\ UNCHANGED <<actions, closeAfter, ai, step, events, href, res, closeLog,
                   closeCalls, exc, caught, errAt, cbCalls, outLog, rlog, notRun>>

InitRun ==
    /\ actions \in SeqsUpTo(ActionKinds, MaxActions)
    /\ closeAfter \in BOOLEAN
    /\ rpc = "start"
    /\ ai = 1
    /\ step = "none"
    /\ events = <<>>
    /\ href = [h \in Handles |-> FALSE]
    /\ res = [h \in Handles |-> "none"]
    /\ closeLog = <<>>
    /\ closeCalls = [h \in Handles |-> 0]
    /\ exc = "none"
    /\ caught = FALSE
    /\ errAt = 0
    /\ cbCalls = 0
    /\ outLog = <<>>
    /\ rlog = <<>>

NextRun ==
    \/ SetupBrowser
    \/ BeginAction
    \/ StartPrim
    \/ EndPrim
    \/ AfterLoop
    \/ FinallyClose
    \/ FinallySkip
    \/ MainExcept
    \/ MainReturn

\* ===================================================================
\*  click: click_element, _wait_for_element        (src/app/script.py)
\* ===================================================================
Selectors == {"a", "b", "c"}

notClick == <<varsRun, varsRoute, varsDownload, varsSink, varsInput, varsManage, varsMap, varsTrigger>>

AfterClickFailRaise(k) == "raised"
\* except Exception: continue -- the click loop goes on to the next selector
\* and raises only once the list is exhausted.  A string selector is clicked
\* directly and its failure propagates.
AfterClickFail(k) ==
    IF isList /\ k < Len(selector) THEN "click" ELSE "raised"

\* _wait_for_element: the same loop over wait_for_selector.
AfterWaitFail(k) ==
    IF isList /\ k < Len(selector) THEN "wait" ELSE "raised"

\* One page.wait_for_selector(sel) of _wait_for_element: the first selector
\* found ends the wait and the click loop starts from the head of the list.
WaitAttempt ==
    /\ cpc = "wait"
    /\ \E ok \in BOOLEAN :
        /\ waitLog' = Append(waitLog, [sel |-> selector[ck], ok |-> ok])
        /\ IF ok
           THEN cpc' = "click" /\ ck' = 1
           ELSE /\ cpc' = AfterWaitFail(ck)
                /\ ck' = IF AfterWaitFail(ck) = "wait" THEN ck + 1 ELSE ck
    /\ UNCHANGED <<selector, isList, waitFor, clickLog, notClick>>

\* One page.click(sel) of click_element.
ClickAttempt ==
    /\ cpc = "click"
    /\ \E ok \in BOOLEAN :
        /\ clickLog' = Append(clickLog, [sel |-> selector[ck], ok |-> ok])
        /\ IF ok
           THEN cpc' = "returned" /\ ck' = ck
           ELSE /\ cpc' = AfterClickFail(ck)
                /\ ck' = IF AfterClickFail(ck) = "click" THEN ck + 1 ELSE ck
    /\ UNCHANGED <<selector, isList, waitFor, waitLog, notClick>>

\* click_element is only called with a non-empty selector (execute_actions
\* tests "and selector"); a string selector is a one-element list here.
InitClick ==
    /\ selector \in SeqsUpTo(Selectors, MaxSelectors) \ {<<>>}
    /\ isList \in BOOLEAN
    /\ ~isList => Len(selector) = 1
    /\ waitFor \in BOOLEAN
    /\ cpc = (IF waitFor THEN "wait" ELSE "click")
    /\ ck = 1
    /\ waitLog = <<>>
    /\ clickLog = <<>>

NextClick ==
    \/ WaitAttempt
    \/ ClickAttempt

\* ===================================================================
\*  input: input_text                              (src/app/script.py)
\* ===================================================================
notInput == <<varsRun, varsClick, varsRoute, varsDownload, varsSink, varsManage, varsMap, varsTrigger>>

\* except Exception as e: self.logger.error(...); continue -- the outer
\* handler of the selector loop; the raise follows the exhausted loop.
AfterInputFail(k) ==
    IF k < Len(iselector) THEN "enter" ELSE "raised"

\* _wait_for_element over the selector list.
AfterInputWaitFail(k) ==
    IF k < Len(iselector) THEN "wait" ELSE "raised"

\* One page.wait_for_selector(sel) of _wait_for_element.
InputWaitAttempt ==
    /\ ipc = "wait"
    /\ \E ok \in BOOLEAN :
        /\ iwaitLog' = Append(iwaitLog, [sel |-> iselector[ik], ok |-> ok])
        /\ IF ok
           THEN ipc' = "enter" /\ ik' = 1
           ELSE /\ ipc' = AfterInputWaitFail(ik)
                /\ ik' = IF AfterInputWaitFail(ik) = "wait" THEN ik + 1 ELSE ik
    /\ UNCHANGED <<iselector, iwaitFor, isDatetime, fillLog, entered, ilog, notInput>>

\* if not is_datetime_field: page.fill(sel, text) inside its own try/except:
\* a failed fill is logged by the inner handler and control reaches the
\* "Введен текст" log line and the return all the same.
InputFill ==
    /\ ipc = "enter"
    /\ ~isDatetime
    /\ \E ok \in BOOLEAN :
        /\ fillLog' = Append(fillLog, [sel |-> iselector[ik], op |-> "fill", ok |-> ok])
        /\ entered' = IF ok THEN entered \cup {iselector[ik]} ELSE entered
        /\ ilog' = ilog \o (IF ok THEN <<>> ELSE <<"error_fill">>) \o <<"info_entered">>
    /\ ipc' = "returned"
    /\ UNCHANGED <<iselector, iwaitFor, isDatetime, ik, iwaitLog, notInput>>

\* else: page.click(sel), then sleep(1) and page.type(sel, text); a failed
\* click reaches the outer handler.
InputDtClick ==
    /\ ipc = "enter"
    /\ isDatetime
    /\ \E ok \in BOOLEAN :
        /\ fillLog' = Append(fillLog, [sel |-> iselector[ik], op |-> "click", ok |-> ok])
        /\ IF ok
           THEN ipc' = "type" /\ ik' = ik /\ ilog' = ilog
           ELSE /\ ipc' = AfterInputFail(ik)
                /\ ik' = IF AfterInputFail(ik) = "enter" THEN ik + 1 ELSE ik
                /\ ilog' = Append(ilog, "error")
    /\ UNCHANGED <<iselector, iwaitFor, isDatetime, iwaitLog, entered, notInput>>

\* page.type(sel, text) of the datetime branch, then the log line and return.
InputDtType ==
    /\ ipc = "type"
    /\ \E ok \in BOOLEAN :
        /\ fillLog' = Append(fillLog, [sel |-> iselector[ik], op |-> "type", ok |-> ok])
        /\ IF ok
           THEN /\ ipc' = "returned" /\ ik' = ik
                /\ entered' = entered \cup {iselector[ik]}
                /\ ilog' = Append(ilog, "info_entered")
           ELSE /\ ipc' = AfterInputFail(ik)
                /\ ik' = IF AfterInputFail(ik) = "enter" THEN ik + 1 ELSE ik
                /\ entered' = entered
                /\ ilog' = Append(ilog, "error")
    /\ UNCHANGED <<iselector, iwaitFor, isDatetime, iwaitLog, notInput>>

\* input_text is only called with a non-empty selector (execute_actions
\* tests "and selector"), here a list.
InitInput ==
    /\ iselector \in SeqsUpTo(Selectors, MaxSelectors) \ {<<>>}
    /\ iwaitFor \in BOOLEAN
    /\ isDatetime \in BOOLEAN
    /\ ipc = (IF iwaitFor THEN "wait" ELSE "enter")
    /\ ik = 1
    /\ iwaitLog = <<>>
    /\ fillLog = <<>>
    /\ entered = {}
    /\ ilog = <<>>

NextInput ==
    \/ InputWaitAttempt
    \/ InputFill
    \/ InputDtClick
    \/ InputDtType

\* ===================================================================
\*  manage: _manage_uploaded_files                 (src/app/script.py)
\* ===================================================================
notManage == <<varsRun, varsClick, varsRoute, varsDownload, varsSink, varsInput, varsMap, varsTrigger>>

\* Words a file name is made of (action['filename'] is free text); the test
\* "'Analytics' in file" is case-sensitive.
NameParts == {"Analytics", "Specialists", "analytics", "Users"}

\* 'word' in file
Contains(file, word) == \E i \in 1..Len(file) : file[i] = word

ClassifySpecialistsFirst(file) ==
    IF Contains(file, "Specialists")
    THEN [to_bitrix |-> FALSE, is_analytics |-> FALSE, skiprows |-> 2, bottom_drops |-> <<>>]
    ELSE IF Contains(file, "Analytics")
    THEN [to_bitrix |-> FALSE, is_analytics |-> TRUE, skiprows |-> 3, bottom_drops |-> <<-1>>]
    ELSE [to_bitrix |-> TRUE, is_analytics |-> FALSE, skiprows |-> 0, bottom_drops |-> <<-1>>]

\* if 'Analytics' in file: ... elif 'Specialists' in file: ... else: ...
Classify(file) ==
    IF Contains(file, "Analytics")
    THEN [to_bitrix |-> FALSE, is_analytics |-> TRUE, skiprows |-> 3, bottom_drops |-> <<-1>>]
    ELSE IF Contains(file, "Specialists")
    THEN [to_bitrix |-> FALSE, is_analytics |-> FALSE, skiprows |-> 2, bottom_drops |-> <<>>]
    ELSE [to_bitrix |-> TRUE, is_analytics |-> FALSE, skiprows |-> 0, bottom_drops |-> <<-1>>]

\* PostgresManager.upload: if is_analytics: _upload_analytics else
\* _upload_specialists.
PostgresUpload(is_analytics) == IF is_analytics THEN "analytics" ELSE "specialists"

\* if to_bitrix: bitrix_manager.upload(df) else: postgres_manager.upload(...)
SinkOf(params) ==
    IF params.to_bitrix THEN "crm" ELSE PostgresUpload(params.is_analytics)

ManageStepsRemoveFirst(params) ==
    <<"read_csv">> \o [i \in 1..Len(params.bottom_drops) |-> "drop"]
        \o <<"remove", "to_excel", "upload">>

\* The statements that follow the classification, in program order: read_csv,
\* one drop per element of bottom_drops, to_excel, os.remove, the upload.
ManageSteps(params) ==
    <<"read_csv">> \o [i \in 1..Len(params.bottom_drops) |-> "drop"]
        \o <<"to_excel", "remove", "upload">>

\* The if/elif/else at the head of the function.
MgClassify ==
    /\ mpc = "classify"
    /\ mparams' = Classify(mfile)
    /\ mpc' = "body"
    /\ mi' = 1
    /\ UNCHANGED <<mfile, csv, xlsx, sinkCalls, mops, notManage>>

\* One statement of the body.  Each of them can raise (read_csv on a file
\* that does not parse, drop on an empty frame, to_excel and os.remove on the
\* file system, the sink's upload); nothing in the function catches, so the
\* call ends there with the files left as they are.
MgStep ==
    /\ mpc = "body"
    /\ LET op == ManageSteps(mparams)[mi]
       IN  /\ sinkCalls' = IF op = "upload" THEN Append(sinkCalls, SinkOf(mparams))
                           ELSE sinkCalls
           /\ \E ok \in BOOLEAN :
               /\ csv' = IF ok /\ op = "remove" THEN "absent" ELSE csv
               /\ xlsx' = IF ok /\ op = "to_excel" THEN "present" ELSE xlsx
               /\ mops' = IF ok THEN Append(mops, op) ELSE mops
               /\ mpc' = IF ~ok THEN "raised"
                         ELSE IF mi = Len(ManageSteps(mparams)) THEN "returned"
                         ELSE "body"
               /\ mi' = IF ok THEN mi + 1 ELSE mi
    /\ UNCHANGED <<mfile, mparams, notManage>>

\* _manage_uploaded_files(file_path) is called with the path _download_file
\* returned, i.e. after the file was written.
InitManage ==
    /\ mfile \in SeqsUpTo(NameParts, MaxNameParts) \ {<<>>}
    /\ mpc = "classify"
    /\ mparams = [to_bitrix |-> FALSE, is_analytics |-> FALSE, skiprows |-> 0,
                  bottom_drops |-> <<>>]
    /\ mi = 1
    /\ csv = "present"
    /\ xlsx = "absent"
    /\ sinkCalls = <<>>
    /\ mops = <<>>

NextManage ==
    \/ MgClassify
    \/ MgStep

\* ===================================================================
\*  map: column selection and renaming of the sinks
\*       (src/app/bitrix_manager.py, src/app/postgres_manager.py)
\* ===================================================================
notMap == <<varsRun, varsClick, varsRoute, varsDownload, varsSink, varsInput, varsManage, varsTrigger>>

\* A label is the sequence of its characters; "A" and "B" are comments of
\* table columns, "U" is not.
Labels == {<<"A">>, <<" ", "A">>, <<"A", " ">>, <<"B">>, <<" ", "B", " ">>,
           <<"U">>, <<"U", " ">>}

\* {column.comment: column.name for column in X.__table__.columns if
\* column.comment is not None}: one entry per commented column; column names
\* are unique in a table.
StaticMap == [l \in {<<"A">>, <<"B">>} |-> IF l = <<"A">> THEN "a" ELSE "b"]

StripNothing(l) == l
\* str.strip(): leading and trailing whitespace removed.
RECURSIVE Strip(_)
Strip(l) ==
    IF l = <<>> THEN l
    ELSE IF Head(l) = " " THEN Strip(Tail(l))
    ELSE IF l[Len(l)] = " " THEN Strip(SubSeq(l, 1, Len(l) - 1))
    ELSE l

\* The label the key test and the frame use: the CRM sink and the analytics
\* upload strip the labels, the specialists upload takes them as they are.
Normalised(s, l) == IF s = "specialists" THEN l ELSE Strip(l)

\* df[columns_to_keep]: for each listed label, every column carrying it.
RECURSIVE Select(_, _)
Select(cols, keep) ==
    IF keep = <<>> THEN <<>>
    ELSE SelectSeq(cols, LAMBDA c : c = Head(keep)) \o Select(cols, Tail(keep))

\* df.rename(columns=MAP): a label that is a key becomes its field, any other
\* label stays.
Rename(cols) ==
    [i \in 1..Len(cols) |->
        IF cols[i] \in DOMAIN StaticMap THEN StaticMap[cols[i]] ELSE cols[i]]

\* columns_to_keep = [...]; df.columns = df.columns.str.strip();
\* df = df[columns_to_keep]
KeepColumns ==
    /\ kpc = "keep"
    /\ LET labels == [i \in 1..Len(df_columns) |-> Normalised(mapsink, df_columns[i])]
           keep == SelectSeq(labels, LAMBDA l : l \in DOMAIN StaticMap)
       IN  /\ columns_to_keep' = keep
           /\ df_columns' = Select(labels, keep)
    /\ kpc' = "rename"
    /\ UNCHANGED <<mapsink, source_columns, notMap>>

\* df = df.rename(columns=...)
RenameColumns ==
    /\ kpc = "rename"
    /\ df_columns' = Rename(df_columns)
    /\ kpc' = "done"
    /\ UNCHANGED <<mapsink, columns_to_keep, source_columns, notMap>>

\* The frame comes from read_csv, which never yields the same label twice.
InitMap ==
    /\ mapsink \in {"crm", "analytics", "specialists"}
    /\ kpc = "keep"
    /\ df_columns \in SeqsUpTo(Labels, MaxCols)
    /\ \A i, j \in 1..Len(df_columns) : i # j => df_columns[i] # df_columns[j]
    /\ columns_to_keep = <<>>
    /\ source_columns = df_columns

NextMap ==
    \/ KeepColumns
    \/ RenameColumns

\* ===================================================================
\*  route: _wait_for_download_url, handle_route    (src/app/script.py)
\* ===================================================================
\* A URL is the sequence of its "/"-separated parts.
Urls == {<<"host", "download", "f1">>, <<"host", "download", "f2">>,
         <<"host", "api", "list">>, <<"host", "download">>}

\* "/download/" in request.url
ContainsMarker(u) == \E k \in 2..(Len(u) - 1) : u[k] = "download"

HandleRouteOverwrite(u) ==
    IF ContainsMarker(u) THEN [url |-> u, disp |-> "abort"]
    ELSE [url |-> download_url, disp |-> "continue"]
\* handle_route: the captured URL after the request and what happens to it.
HandleRoute(u) ==
    IF ContainsMarker(u)
    THEN IF download_url = NoUrl
         THEN [url |-> u, disp |-> "abort"]
         ELSE [url |-> download_url, disp |-> "abort"]
    ELSE [url |-> download_url, disp |-> "continue"]

notRoute == <<varsRun, varsClick, varsDownload, varsSink, varsInput, varsManage, varsMap, varsTrigger>>

\* await self.page.route("**/*", handle_route)
InstallRoute ==
    /\ wpc = "start"
    /\ installed' = TRUE
    /\ wpc' = "polling"
    /\ UNCHANGED <<download_url, elapsed, reqLog, returned_url, notRoute>>

\* The page issues a request.  With the handler installed handle_route decides;
\* otherwise the request goes to the network untouched.
Request ==
    /\ wpc \in {"start", "polling", "returned"}
    /\ Len(reqLog) < MaxRequests
    /\ \E u \in Urls :
        IF installed
        THEN /\ download_url' = HandleRoute(u).url
             /\ reqLog' = Append(reqLog, [url |-> u, disp |-> HandleRoute(u).disp,
                                          handled |-> TRUE])
        ELSE /\ download_url' = download_url
             /\ reqLog' = Append(reqLog, [url |-> u, disp |-> "continue",
                                          handled |-> FALSE])
    /\ UNCHANGED <<wpc, installed, elapsed, returned_url, notRoute>>

TickStuck(e) == e
\* await asyncio.sleep(1): by the next test of the loop condition
\* time.time() - start_time has grown by the poll interval.
Tick(e) == e + 1

\* while time.time() - start_time < timeout and not download_url: sleep(1)
Poll ==
    /\ wpc = "polling"
    /\ elapsed < TimeoutTicks /\ download_url = NoUrl
    /\ elapsed' = Tick(elapsed)
    /\ UNCHANGED <<wpc, installed, download_url, reqLog, returned_url, notRoute>>

\* The loop ends: unroute, log the result, return download_url.
FinishWait ==
    /\ wpc = "polling"
    /\ ~(elapsed < TimeoutTicks /\ download_url = NoUrl)
    /\ installed' = FALSE
    /\ returned_url' = download_url
    /\ wpc' = "returned"
    /\ UNCHANGED <<download_url, elapsed, reqLog, notRoute>>

InitRoute ==
    /\ wpc = "start"
    /\ installed = FALSE
    /\ download_url = NoUrl
    /\ elapsed = 0
    /\ reqLog = <<>>
    /\ returned_url = NoUrl

NextRoute ==
    \/ InstallRoute
    \/ Request
    \/ Poll
    \/ FinishWait

\* ===================================================================
\*  trigger: download action with a selector -- click_element, then
\*           _download_file up to the wait          (src/app/script.py)
\* ===================================================================
notTrigger == <<varsRun, varsClick, varsDownload, varsSink, varsInput, varsManage, varsMap>>

\* The URL the clicked export control makes the page request.
ClickUrl == <<"host", "download", "f1">>

\* if selector: await self.click_element(selector, wait_for) -- the click is
\* delivered; the page will issue the download request on its own time.
TrClick ==
    /\ tpc = "click"
    /\ clickReq' = "pending"
    /\ tpc' = "route_all"
    /\ UNCHANGED <<varsRoute, notTrigger>>

\* _download_file: await self.page.route("**/*", lambda route:
\* route.continue_()), then the call of _wait_for_download_url, whose
\* handle_route is not installed yet.
TrRouteAll ==
    /\ tpc = "route_all"
    /\ tpc' = "wait"
    /\ wpc' = "start"
    /\ UNCHANGED <<clickReq, installed, download_url, elapsed, reqLog, returned_url,
                   notTrigger>>

\* The page issues the request the click triggered.  With handle_route
\* installed it decides; before that the request is continued (by the
\* lambda, or untouched) and no later request repeats it.
TrRequest ==
    /\ clickReq = "pending"
    /\ wpc # "returned"
    /\ IF installed
       THEN /\ download_url' = HandleRoute(ClickUrl).url
            /\ reqLog' = Append(reqLog, [url |-> ClickUrl,
                                         disp |-> HandleRoute(ClickUrl).disp,
                                         handled |-> TRUE])
            /\ clickReq' = "seen"
       ELSE /\ download_url' = download_url
            /\ reqLog' = Append(reqLog, [url |-> ClickUrl, disp |-> "continue",
                                         handled |-> FALSE])
            /\ clickReq' = "missed"
    /\ UNCHANGED <<tpc, wpc, installed, elapsed, returned_url, notTrigger>>

InitTrigger ==
    /\ tpc = "click"
    /\ clickReq = "none"

NextTrigger ==
    \/ TrClick
    \/ TrRouteAll
    \/ TrRequest
    \/ InstallRoute
    \/ Request
    \/ Poll
    \/ FinishWait

\* ===================================================================
\*  download: _download_file                       (src/app/script.py)
\* ===================================================================
notDownload == <<varsRun, varsClick, varsRoute, varsSink, varsInput, varsManage, varsMap, varsTrigger>>

\* except Exception / the error returns: an error is logged and None returned.
\* Nothing on these paths touches the file.
DlFail(msg) ==
    /\ dlog' = [dlog EXCEPT ![dn] = Append(@, msg)]
    /\ dresult' = [dresult EXCEPT ![dn] = "None"]
    /\ dpc' = "returned"
    /\ UNCHANGED <<dn, disk, chunksLeft>>

DlStay == UNCHANGED <<dn, disk, chunksLeft, dresult, dlog>>

\* await self.page.route("**/*", lambda route: route.continue_())
DlRoute ==
    /\ dpc = "route"
    /\ \E ok \in BOOLEAN : IF ok THEN dpc' = "wait" /\ DlStay ELSE DlFail("exception")
    /\ UNCHANGED notDownload

\* download_url = await self._wait_for_download_url(): a URL, None (which
\* _wait_for_download_url has logged as an error), or an exception.
DlWaitUrl ==
    /\ dpc = "wait"
    /\ \E out \in {"url", "none", "raise"} :
        IF out = "url" THEN dpc' = "session" /\ DlStay
        ELSE DlFail(IF out = "none" THEN "url_not_found" ELSE "exception")
    /\ UNCHANGED notDownload

\* context.cookies(), page.evaluate(navigator.userAgent)
DlSession ==
    /\ dpc = "session"
    /\ \E ok \in BOOLEAN : IF ok THEN dpc' = "get" /\ DlStay ELSE DlFail("exception")
    /\ UNCHANGED notDownload

\* session.get(download_url, ...): raises, or answers with a status.
DlGet ==
    /\ dpc = "get"
    /\ \E out \in {"raise", "200", "404", "500"} :
        IF out = "200" THEN dpc' = "open" /\ DlStay
        ELSE DlFail(IF out = "raise" THEN "exception" ELSE "http_" \o out)
    /\ UNCHANGED notDownload

\* open(filename, 'wb') creates (truncates) the file before any chunk arrives.
DlOpen ==
    /\ dpc = "open"
    /\ \/ DlFail("exception")
       \/ /\ disk' = [disk EXCEPT ![dn] = "partial"]
          /\ chunksLeft' \in 0..MaxChunks
          /\ dpc' = "chunks"
          /\ UNCHANGED <<dn, dresult, dlog>>
    /\ UNCHANGED notDownload

\* async for chunk in response.content.iter_chunked(8192): f.write(chunk) --
\* the read or the write of a chunk may raise; the file stays as written so far.
DlChunk ==
    /\ dpc = "chunks"
    /\ chunksLeft > 0
    /\ \/ DlFail("exception")
       \/ /\ chunksLeft' = chunksLeft - 1
          /\ UNCHANGED <<dpc, dn, disk, dresult, dlog>>
    /\ UNCHANGED notDownload

\* The body is exhausted: the file is closed and its path returned.
DlDone ==
    /\ dpc = "chunks"
    /\ chunksLeft = 0
    /\ disk' = [disk EXCEPT ![dn] = "complete"]
    /\ dresult' = [dresult EXCEPT ![dn] = "path"]
    /\ dpc' = "returned"
    /\ UNCHANGED <<dn, chunksLeft, dlog, notDownload>>

\* The next download action of the run (its file name differs).
NextDownload ==
    /\ dpc = "returned"
    /\ dn < MaxDownloads
    /\ dn' = dn + 1
    /\ dpc' = "route"
    /\ UNCHANGED <<disk, chunksLeft, dresult, dlog, notDownload>>

InitDownload ==
    /\ dpc = "route"
    /\ dn = 1
    /\ disk = [k \in 1..MaxDownloads |-> "absent"]
    /\ chunksLeft = 0
    /\ dresult = [k \in 1..MaxDownloads |-> "pending"]
    /\ dlog = [k \in 1..MaxDownloads |-> <<>>]

NextDl ==
    \/ DlRoute
    \/ DlWaitUrl
    \/ DlSession
    \/ DlGet
    \/ DlOpen
    \/ DlChunk
    \/ DlDone
    \/ NextDownload

\* ===================================================================
\*  sink: BitrixManager (src/app/bitrix_manager.py),
\*        PostgresManager (src/app/postgres_manager.py)
\* ===================================================================
Keys == {"A", "B", "C"}
KeyVals == Keys \cup {None}

\* How one POST to the add endpoint can end: HTTP 200 and a body without an
\* error key; HTTP 200 and a body with one; a RequestException (raise_for_status
\* included); a body that is not JSON; a success status other than 200.
PostOutcomes == {"ok", "error_field", "request_fail", "json_fail", "status_not_200"}

notSink == <<varsRun, varsClick, varsRoute, varsDownload, varsInput, varsManage, varsMap, varsTrigger>>

\* df.to_dict('records'): the rows in order, each <<row number, key>>.
Rows(b) == [i \in 1..Len(b) |-> <<i, b[i]>>]

\* reg_nums = [reg_num for reg_num in reg_nums if reg_num]
RegNums(rows) == {rows[i][2] : i \in 1..Len(rows)} \ {None}

\* _get_response: the decoded body, or None after a logged failure.  The
\* list query is filtered by '@<reg num field>': reg_nums.
GetResponse(out, regNums) ==
    IF out = "ok" THEN [none |-> FALSE, result |-> crm \cap regNums]
    ELSE [none |-> TRUE, result |-> {}]

\* _get_records_by_reg_nums: records_by_reg_nums['result'] -- subscripting
\* None raises TypeError.
RecordsByRegNums(resp) ==
    IF resp.none THEN [raised |-> TRUE, keys |-> {}]
    ELSE [raised |-> FALSE, keys |-> resp.result]

NewRecordsAll(rows, ex) == rows
\* records_to_upload = [rec for rec in records if rec[key] not in uploaded]
\* new_records = df[~df['material_number'].isin(existing_numbers)]
NewRecords(rows, ex) == SelectSeq(rows, LAMBDA r : r[2] \notin ex)

\* A logger call writes an entry only if msg % args succeeds; the messages
\* passed with extra positional arguments carry no conversion specifier, so
\* formatting them raises inside the handler and the entry is dropped.
LoggerCall(entry, nargs) == IF nargs = 0 THEN <<entry>> ELSE <<>>

\* The logger call _upload_to_bitrix makes for each outcome of the POST.
PostLogCall(out) ==
    CASE out = "ok" -> <<>>
      [] out = "error_field" -> LoggerCall("warning_error_field", 1)
      [] out = "status_not_200" -> LoggerCall("error_status", 2)
      [] out = "request_fail" -> LoggerCall("error_request", 0)
      [] out = "json_fail" -> LoggerCall("error_json", 0)

RollbackKeeps(p) == p
\* self.session.rollback(): the objects added since the last commit are expunged.
Rollback(p) == <<>>

\* BitrixManager.upload up to the end of _get_records_by_reg_nums.
CrmQuery ==
    /\ sink = "crm" /\ spc = "start"
    /\ storeAtQuery' = crm
    /\ \E out \in {"ok", "request_fail", "json_fail"} :
        LET resp == GetResponse(out, RegNums(Rows(batch)))
            got == RecordsByRegNums(resp)
        IN  IF got.raised
            THEN /\ slog' = slog \o LoggerCall("error_" \o out, 0)
                 /\ sraised' = TRUE
                 /\ spc' = "raised"
                 /\ UNCHANGED <<existing, todo>>
            ELSE /\ slog' = slog \o LoggerCall("info_already_uploaded", 0)
                 /\ existing' = got.keys
                 /\ todo' = NewRecords(Rows(batch), got.keys)
                 /\ spc' = "posting"
                 /\ UNCHANGED sraised
    /\ UNCHANGED <<sink, batch, crm, dbKeys, dbCount, dbBefore, submitted, pending,
                   pout, plog, notSink>>

\* One iteration of "for record in records_to_upload: _upload_to_bitrix(record)".
\* _upload_to_bitrix catches every Exception; a deal is created when the POST
\* succeeded.
CrmPost ==
    /\ sink = "crm" /\ spc = "posting"
    /\ todo # <<>>
    /\ submitted' = Append(submitted, Head(todo))
    /\ todo' = Tail(todo)
    /\ \E out \in PostOutcomes :
        /\ pout' = [pout EXCEPT ![out] = @ + 1]
        /\ plog' = [plog EXCEPT ![out] = @ + Len(PostLogCall(out))]
        /\ crm' = IF out = "ok" /\ Head(todo)[2] # None
                  THEN crm \cup {Head(todo)[2]} ELSE crm
    /\ UNCHANGED <<sink, spc, batch, dbKeys, dbCount, dbBefore, storeAtQuery, existing,
                   pending, slog, sraised, notSink>>

\* The loop is over: the number of submitted records is logged.
CrmDone ==
    /\ sink = "crm" /\ spc = "posting"
    /\ todo = <<>>
    /\ slog' = slog \o LoggerCall("info_uploaded", 0)
    /\ spc' = "done"
    /\ UNCHANGED <<sink, batch, crm, dbKeys, dbCount, dbBefore, storeAtQuery, existing,
                   todo, submitted, pending, pout, plog, sraised, notSink>>

\* _upload_specialists up to session.add_all: the SELECT of the existing
\* material numbers (which may raise), the filter, and the survivors added to
\* the session; nothing is added when there is no new record.
DbSelect ==
    /\ sink = "specialists" /\ spc = "start"
    /\ storeAtQuery' = dbKeys
    /\ \E ok \in BOOLEAN :
        IF ok
        THEN LET new == NewRecords(Rows(batch), dbKeys)
             IN  /\ existing' = dbKeys
                 /\ pending' = pending \o new
                 /\ submitted' = submitted \o new
                 /\ IF new = <<>>
                    THEN slog' = slog \o LoggerCall("info_no_new", 0) /\ spc' = "done"
                    ELSE slog' = slog /\ spc' = "commit"
                 /\ UNCHANGED sraised
        ELSE /\ sraised' = TRUE
             /\ spc' = "raised"
             /\ UNCHANGED <<existing, pending, submitted, slog>>
    /\ UNCHANGED <<sink, batch, crm, dbKeys, dbCount, dbBefore, todo, pout, plog, notSink>>

\* _upload_analytics up to session.add_all: every row is added, unchecked.
DbAddAnalytics ==
    /\ sink = "analytics" /\ spc = "start"
    /\ pending' = pending \o Rows(batch)
    /\ submitted' = submitted \o Rows(batch)
    /\ spc' = "commit"
    /\ UNCHANGED <<sink, batch, crm, dbKeys, dbCount, dbBefore, storeAtQuery, existing,
                   todo, slog, pout, plog, sraised, notSink>>

\* session.commit(): all pending rows are persisted, or none is; on failure
\* the session is rolled back, the error logged and re-raised.
DbCommit ==
    /\ sink \in {"specialists", "analytics"} /\ spc = "commit"
    /\ \E ok \in BOOLEAN :
        IF ok
        THEN /\ dbKeys' = dbKeys \cup {pending[i][2] : i \in 1..Len(pending)}
             /\ dbCount' = dbCount + Len(pending)
             /\ pending' = <<>>
             /\ slog' = slog \o LoggerCall("info_loaded", 0)
             /\ spc' = "done"
             /\ UNCHANGED sraised
        ELSE /\ pending' = Rollback(pending)
             /\ slog' = slog \o LoggerCall("error_commit", 0)
             /\ sraised' = TRUE
             /\ spc' = "raised"
             /\ UNCHANGED <<dbKeys, dbCount>>
    /\ UNCHANGED <<sink, batch, crm, dbBefore, storeAtQuery, existing, todo, submitted,
                   pout, plog, notSink>>

\* The store holds any keys when upload is called.  The rows of a database
\* file all carry a material number.
InitSink ==
    /\ sink \in {"crm", "specialists", "analytics"}
    /\ spc = "start"
    /\ batch \in SeqsUpTo(KeyVals, MaxBatch)
    /\ sink # "crm" => \A i \in 1..Len(batch) : batch[i] # None
    /\ crm \in SUBSET Keys
    /\ dbKeys \in SUBSET Keys
    /\ sink = "crm" => dbKeys = {}
    /\ sink # "crm" => crm = {}
    /\ dbCount = Cardinality(dbKeys)
    /\ dbBefore = [keys |-> dbKeys, count |-> dbCount]
    /\ storeAtQuery = {}
    /\ existing = {}
    /\ todo = <<>>
    /\ submitted = <<>>
    /\ pending = <<>>
    /\ slog = <<>>
    /\ pout = [o \in PostOutcomes |-> 0]
    /\ plog = [o \in PostOutcomes |-> 0]
    /\ sraised = FALSE

NextSink ==
    \/ CrmQuery
    \/ CrmPost
    \/ CrmDone
    \/ DbSelect
    \/ DbAddAnalytics
    \/ DbCommit

\* ===================================================================
\*  specifications
\* ===================================================================
\* The groups a specification does not exercise stay at these values.
IdleRun ==
    /\ actions = <<>> /\ closeAfter = TRUE /\ rpc = "idle" /\ ai = 1 /\ step = "none"
    /\ events = <<>> /\ href = [h \in Handles |-> FALSE]
    /\ res = [h \in Handles |-> "none"] /\ closeLog = <<>>
    /\ closeCalls = [h \in Handles |-> 0] /\ exc = "none" /\ caught = FALSE
    /\ errAt = 0 /\ cbCalls = 0 /\ outLog = <<>> /\ rlog = <<>>
IdleClick ==
    /\ selector = <<>> /\ isList = TRUE /\ waitFor = FALSE /\ cpc = "idle" /\ ck = 1
    /\ waitLog = <<>> /\ clickLog = <<>>
IdleRoute ==
    /\ wpc = "idle" /\ installed = FALSE /\ download_url = NoUrl /\ elapsed = 0
    /\ reqLog = <<>> /\ returned_url = NoUrl
IdleDownload ==
    /\ dpc = "idle" /\ dn = 1 /\ disk = <<>> /\ chunksLeft = 0 /\ dresult = <<>>
    /\ dlog = <<>>
IdleSink ==
    /\ sink = "crm" /\ spc = "idle" /\ batch = <<>> /\ crm = {} /\ dbKeys = {}
    /\ dbCount = 0 /\ dbBefore = [keys |-> {}, count |-> 0] /\ storeAtQuery = {}
    /\ existing = {} /\ todo = <<>> /\ submitted = <<>> /\ pending = <<>>
    /\ slog = <<>> /\ pout = [o \in PostOutcomes |-> 0]
    /\ plog = [o \in PostOutcomes |-> 0] /\ sraised = FALSE
IdleInput ==
    /\ iselector = <<>> /\ iwaitFor = FALSE /\ isDatetime = FALSE /\ ipc = "idle"
    /\ ik = 1 /\ iwaitLog = <<>> /\ fillLog = <<>> /\ entered = {} /\ ilog = <<>>
IdleManage ==
    /\ mfile = <<>> /\ mpc = "idle" /\ mi = 1 /\ csv = "absent" /\ xlsx = "absent"
    /\ mparams = [to_bitrix |-> FALSE, is_analytics |-> FALSE, skiprows |-> 0,
                  bottom_drops |-> <<>>]
    /\ sinkCalls = <<>> /\ mops = <<>>
IdleMap ==
    /\ mapsink = "crm" /\ kpc = "idle" /\ df_columns = <<>> /\ columns_to_keep = <<>>
    /\ source_columns = <<>>
IdleTrigger ==
    /\ tpc = "idle" /\ clickReq = "none"

InitSpecRun == InitRun /\ IdleClick /\ IdleRoute /\ IdleDownload /\ IdleSink /\ IdleInput /\ IdleManage /\ IdleMap /\ IdleTrigger
SpecRun == InitSpecRun /\ [][NextRun]_vars

InitSpecClick == IdleRun /\ InitClick /\ IdleRoute /\ IdleDownload /\ IdleSink /\ IdleInput /\ IdleManage /\ IdleMap /\ IdleTrigger
SpecClick == InitSpecClick /\ [][NextClick]_vars

InitSpecRoute == IdleRun /\ IdleClick /\ InitRoute /\ IdleDownload /\ IdleSink /\ IdleInput /\ IdleManage /\ IdleMap /\ IdleTrigger
SpecRoute == InitSpecRoute /\ [][NextRoute]_vars

\* The event loop resumes the coroutine whenever the awaited call (route,
\* sleep, unroute) has completed; the page's requests are not owed to it.
SpecRouteFair ==
    SpecRoute /\ WF_vars(InstallRoute) /\ WF_vars(Poll) /\ WF_vars(FinishWait)

InitSpecDownload == IdleRun /\ IdleClick /\ IdleRoute /\ InitDownload /\ IdleSink /\ IdleInput /\ IdleManage /\ IdleMap /\ IdleTrigger
SpecDownload == InitSpecDownload /\ [][NextDl]_vars

InitSpecSink == IdleRun /\ IdleClick /\ IdleRoute /\ IdleDownload /\ InitSink /\ IdleInput /\ IdleManage /\ IdleMap /\ IdleTrigger
SpecSink == InitSpecSink /\ [][NextSink]_vars

InitSpecInput == IdleRun /\ IdleClick /\ IdleRoute /\ IdleDownload /\ IdleSink /\ InitInput /\ IdleManage /\ IdleMap /\ IdleTrigger
SpecInput == InitSpecInput /\ [][NextInput]_vars

InitSpecManage ==
    /\ IdleRun /\ IdleClick /\ IdleRoute /\ IdleDownload /\ IdleSink /\ IdleInput
    /\ InitManage /\ IdleMap /\ IdleTrigger
SpecManage == InitSpecManage /\ [][NextManage]_vars

InitSpecMap ==
    /\ IdleRun /\ IdleClick /\ IdleRoute /\ IdleDownload /\ IdleSink /\ IdleInput
    /\ IdleManage /\ InitMap /\ IdleTrigger
SpecMap == InitSpecMap /\ [][NextMap]_vars

InitSpecTrigger ==
    /\ IdleRun /\ IdleClick /\ IdleRoute /\ IdleDownload /\ IdleSink /\ IdleInput
    /\ IdleManage /\ IdleMap /\ InitTrigger
SpecTrigger == InitSpecTrigger /\ [][NextTrigger]_vars

\* ===================================================================
\*  claims
\* ===================================================================
StepRank(p) ==
    CASE p = "click_element" -> 1
      [] p = "input_text" -> 1
      [] p = "_download_file" -> 2
      [] p = "_manage_uploaded_files" -> 3
      [] OTHER -> 0

StartsBefore(e, f) ==
    \/ e[1] < f[1]
    \/ e[1] = f[1] /\ StepRank(e[2]) < StepRank(f[2])

\* C1: execute_actions invokes the primitives strictly in declaration order,
\* one at a time: every start is followed by its own end before the next
\* start, the started primitives are strictly increasing in (action index,
\* position within the action), so none is reordered or run twice, each belongs
\* to the action at its index, and a run that completes has started the
\* primitive of every action that declares one.
C1_SequentialInOrder ==
    /\ \A k \in 1..Len(events) :
        /\ events[k][3] = (IF k % 2 = 1 THEN "start" ELSE "end")
        /\ events[k][1] \in 1..Len(actions)
        /\ k % 2 = 0 => events[k][1] = events[k-1][1] /\ events[k][2] = events[k-1][2]
        /\ (k % 2 = 1 /\ k > 2) => StartsBefore(events[k-2], events[k])
        /\ LET a == actions[events[k][1]]
           IN  \/ events[k][2] = FirstStep(a)
               \/ \E q \in {"click_element", "_download_file"}, o \in {"ok", "file"} :
                    events[k][2] = NextStep(a, q, o)
    /\ (rpc = "done" /\ exc = "none") =>
        \A i \in 1..Len(actions) :
            FirstStep(actions[i]) \notin {"none", "lookup_error"} =>
                \E k \in 1..Len(events) : events[k] = <<i, FirstStep(actions[i]), "start">>

C1_Witness ==
    /\ rpc = "done" /\ exc = "none"
    /\ Len(actions) = 2
    /\ Len(events) >= 4
    /\ events[1][1] = 1
    /\ events[Len(events)][1] = 2

\* C5: on every exit path of a run (normal completion, an exception in an
\* action, either value of close_browser_after_completion, a failure while
\* closing a handle) every acquired resource ends up closed, and the closes
\* happen in the order page, context, browser, engine.  Only a resource whose
\* own close() was called and raised is excused here, so that a violation is
\* a resource the run never tried to close.
C5_AllClosedOnEveryExit ==
    (rpc = "done" /\ exc # "cancel") =>
        /\ \A h \in Handles : res[h] = "open" => closeCalls[h] > 0
        /\ \A j, k \in 1..Len(closeLog) :
            j < k => \E m, n \in 1..4 :
                        m < n /\ CloseOrder[m] = closeLog[j] /\ CloseOrder[n] = closeLog[k]

AllFailed(log) ==
    /\ Len(log) = Len(selector)
    /\ \A k \in 1..Len(log) : ~log[k].ok

ClicksInListOrder ==
    /\ Len(clickLog) <= Len(selector)
    /\ \A k \in 1..Len(clickLog) :
        /\ clickLog[k].sel = selector[k]
        /\ k < Len(clickLog) => ~clickLog[k].ok
    /\ (cpc = "returned") <=> (clickLog # <<>> /\ clickLog[Len(clickLog)].ok)

\* C2 as stated: click_element given a selector list attempts the click on the
\* selectors in list order, stops at the first success and returns, and
\* raises only if the click failed on every selector of the list.
C2_RaisesOnlyIfEveryClickFailed ==
    isList =>
        /\ ClicksInListOrder
        /\ cpc = "raised" => AllFailed(clickLog)

\* C2 amended: as above, but click_element also raises, without attempting
\* any click, when wait_for is set and the wait found none of the selectors.
C2_ClickFallback ==
    isList =>
        /\ ClicksInListOrder
        /\ cpc = "raised" =>
            \/ AllFailed(clickLog)
            \/ waitFor /\ clickLog = <<>> /\ AllFailed(waitLog)

C2_Witness ==
    /\ isList
    /\ selector = <<"a", "b", "c">>
    /\ cpc = "returned"
    /\ clickLog = <<[sel |-> "a", ok |-> FALSE], [sel |-> "b", ok |-> FALSE],
                    [sel |-> "c", ok |-> TRUE]>>

RECURSIVE FirstCaptured(_)
\* The URL of the first request of log that the handler saw and that carries
\* the download marker (None if there is none).
FirstCaptured(log) ==
    IF log = <<>> THEN NoUrl
    ELSE IF Head(log).handled /\ ContainsMarker(Head(log).url) THEN Head(log).url
    ELSE FirstCaptured(Tail(log))

\* C3: while handle_route is installed, the first request whose URL contains
\* the download marker is captured and aborted, every later matching request
\* is aborted and leaves the captured URL as it is, and every other request
\* is continued.
C3_SingleCapture ==
    /\ download_url = FirstCaptured(reqLog)
    /\ \A k \in 1..Len(reqLog) :
        reqLog[k].handled =>
            reqLog[k].disp = (IF ContainsMarker(reqLog[k].url) THEN "abort" ELSE "continue")

C3_Witness ==
    /\ Len(reqLog) >= 3
    /\ \A k \in 1..3 : reqLog[k].handled
    /\ reqLog[1].url = <<"host", "api", "list">>
    /\ reqLog[2].url = <<"host", "download", "f1">>
    /\ reqLog[3].url = <<"host", "download", "f2">>
    /\ download_url = <<"host", "download", "f1">>
    /\ reqLog[3].disp = "abort"

\* C4: every download action either persists exactly one file and returns its
\* path, or persists no file and returns None with the failure logged as an
\* error; a failed download leaves no partial file behind.
C4_OneFileOrNone ==
    \A k \in 1..MaxDownloads :
        /\ dresult[k] = "path" => disk[k] = "complete"
        /\ dresult[k] = "None" => disk[k] = "absent" /\ dlog[k] # <<>>

Survivors == SelectSeq(Rows(batch), LAMBDA r : r[2] \notin storeAtQuery)

\* C6: both deduplicating sinks submit exactly the records of the batch whose
\* key is not among the keys present in the store when the dedupe query ran,
\* in batch order (CRM: POSTed, key = registration number; database
\* specialists: added to the session, key = material number).
C6_Dedupe ==
    (sink \in {"crm", "specialists"} /\ spc \in {"posting", "commit", "done"}) =>
        /\ submitted \o todo = Survivors
        /\ spc \in {"commit", "done"} => submitted = Survivors

C6_Witness ==
    /\ sink = "crm" /\ spc = "done"
    /\ storeAtQuery = {"A"}
    /\ batch = <<"A", "B", "C">>
    /\ submitted = <<<<2, "B">>, <<3, "C">>>>

\* C7: within one run no key is submitted twice to its sink, also when the
\* batch carries the same registration or material number in several rows.
C7_NoKeyTwice ==
    sink \in {"crm", "specialists"} =>
        \A j, k \in 1..Len(submitted) :
            (j < k /\ submitted[j][2] # None) => submitted[j][2] # submitted[k][2]

CommitFailed == \E i \in 1..Len(slog) : slog[i] = "error_commit"

\* C8: the database sink is fail-closed: the surviving records of the batch
\* are all added to one transaction; a successful commit persists all of
\* them; a failed commit is rolled back, so that none of them is persisted
\* or left pending in the session, and the error is re-raised.
C8_FailClosed ==
    sink \in {"specialists", "analytics"} =>
        /\ spc = "commit" =>
            /\ pending = (IF sink = "specialists" THEN Survivors ELSE Rows(batch))
            /\ dbKeys = dbBefore.keys /\ dbCount = dbBefore.count
        /\ spc = "done" =>
            /\ pending = <<>>
            /\ dbCount = dbBefore.count + Len(submitted)
            /\ dbKeys = dbBefore.keys \cup {submitted[i][2] : i \in 1..Len(submitted)}
        /\ CommitFailed =>
            /\ spc = "raised" /\ sraised
            /\ pending = <<>>
            /\ dbKeys = dbBefore.keys /\ dbCount = dbBefore.count

C8_Witness ==
    /\ sink = "specialists"
    /\ CommitFailed
    /\ Len(submitted) >= 2
    /\ sraised

\* C9: the CRM sink is fail-open per record: every record selected for upload
\* is POSTed exactly once, in batch order, whatever the outcome of the POSTs
\* before it, and a request failure, a JSON decode failure or an error field
\* in the response is logged.
C9_FailOpenLogged ==
    (sink = "crm" /\ spc \in {"posting", "done"}) =>
        /\ submitted \o todo = Survivors
        /\ spc = "done" => todo = <<>>
        /\ \A o \in {"request_fail", "json_fail", "error_field"} : plog[o] = pout[o]

QueryFailed ==
    \E i \in 1..Len(slog) : slog[i] \in {"error_request_fail", "error_json_fail"}

\* C10: when the CRM list query fails, the failure is logged, the query
\* yields no result, and BitrixManager.upload does not raise because of it.
C10_QueryFailureNotRaised ==
    (sink = "crm" /\ QueryFailed) => ~sraised

\* The attempts to enter the text visit the selectors in list order, one
\* selector after the other.
EnterSels ==
    LET firsts == SelectSeq(fillLog, LAMBDA e : e.op \in {"fill", "click"})
    IN  [i \in 1..Len(firsts) |-> firsts[i].sel]

EnteredLast ==
    /\ fillLog # <<>>
    /\ fillLog[Len(fillLog)].ok
    /\ fillLog[Len(fillLog)].op \in {"fill", "type"}

\* C11: input_text with a selector list tries the selectors in list order,
\* goes on to the next selector after any failure, returns (reports success)
\* only if the text was entered into some selector, and raises only if
\* entering failed on every selector.
C11_InputFallback ==
    /\ EnterSels = SubSeq(iselector, 1, Len(EnterSels))
    /\ ipc = "returned" => entered # {} /\ EnteredLast
    /\ (ipc = "raised" /\ fillLog # <<>>) =>
           /\ EnterSels = iselector
           /\ entered = {}
    /\ (ipc \in {"returned", "raised"} /\ ~EnteredLast /\ fillLog # <<>>) =>
           EnterSels = iselector

\* C12: a file is routed by its name to exactly one sink: "Analytics" in the
\* name (with or without "Specialists") -> the database as analytics;
\* otherwise "Specialists" -> the database as specialists; otherwise the CRM
\* sink and never the database.  At most one upload is called per file, and
\* a call that returns has called one.
C12_RoutedByName ==
    /\ Len(sinkCalls) <= 1
    /\ mpc = "returned" => Len(sinkCalls) = 1
    /\ \A i \in 1..Len(sinkCalls) :
          sinkCalls[i] = (IF Contains(mfile, "Analytics") THEN "analytics"
                          ELSE IF Contains(mfile, "Specialists") THEN "specialists"
                          ELSE "crm")

C12_Witness ==
    /\ mpc = "returned"
    /\ Contains(mfile, "Analytics") /\ Contains(mfile, "Specialists")
    /\ sinkCalls = <<"analytics">>

\* The wait saw a download-marker request while the handler was installed.
MarkerHandled ==
    \E i \in 1..Len(reqLog) : reqLog[i].handled /\ ContainsMarker(reqLog[i].url)

SameUrl(x, y) ==
    IF x = NoUrl THEN y = NoUrl ELSE IF y = NoUrl THEN FALSE ELSE x = y

WaitReturnedRight ==
    IF wpc = "returned"
    THEN /\ ~installed
         /\ SameUrl(returned_url, download_url)
         /\ returned_url = NoUrl <=> ~MarkerHandled
         /\ returned_url = NoUrl => elapsed = TimeoutTicks
         /\ SameUrl(returned_url, FirstCaptured(reqLog))
    ELSE TRUE

\* C13: _wait_for_download_url always terminates; it returns None exactly
\* when the timeout elapsed with no download-marker request seen, and the
\* captured URL otherwise; when it has returned the handler is removed.
C13_WaitTerminates == []WaitReturnedRight /\ <>(wpc = "returned")

C13_Witness ==
    /\ wpc = "returned" /\ returned_url = NoUrl /\ elapsed = TimeoutTicks
    /\ \E i \in 1..Len(reqLog) : ~ContainsMarker(reqLog[i].url) /\ reqLog[i].handled

UnknownType(a) == a.type \notin {"click", "input", "download"}

\* C14: an action whose type is none of click, input, download is skipped
\* silently: no primitive is ever started for it, it is never the action
\* that raised, and the loop step that meets it moves on to the next index
\* with no exception and no event.
C14_UnknownTypeIgnored ==
    /\ [](\A i \in 1..Len(actions) :
            UnknownType(actions[i]) =>
                /\ \A k \in 1..Len(events) : events[k][1] # i
                /\ errAt # i)
    /\ [][(rpc = "loop" /\ ai <= Len(actions) /\ UnknownType(actions[ai])) =>
            /\ rpc' = "loop" /\ ai' = ai + 1
            /\ exc' = exc /\ events' = events /\ rlog' = rlog]_vars

C14_Witness ==
    /\ rpc = "done" /\ exc = "none"
    /\ Len(actions) = 2
    /\ UnknownType(actions[1])
    /\ \E k \in 1..Len(events) : events[k][1] = 2

InputResolves(i) == Resolves(InputValue(actions[i].value))

Done(op) == \E k \in 1..Len(mops) : mops[k] = op

\* to_excel completed, and read_csv before it.
Converted ==
    \E j, k \in 1..Len(mops) : j < k /\ mops[j] = "read_csv" /\ mops[k] = "to_excel"

\* C16 as stated: once _manage_uploaded_files was entered, the CSV is gone
\* when the call ends, returning or raising, and it is never deleted before
\* its conversion has completed.
C16_CsvGoneWhenCallEnds ==
    /\ mpc \in {"returned", "raised"} => csv = "absent"
    /\ csv = "absent" => Converted /\ xlsx = "present"

\* C16, amended: the CSV is read, converted, then deleted, in this order; it
\* is gone when the call returns and when the call raises after the deletion
\* (the sink's upload raised); when reading, dropping, converting or the
\* deletion itself raises, the call ends with the CSV still on disk.
C16_CsvLifecycle ==
    /\ mpc = "returned" => csv = "absent"
    /\ mpc = "raised" => (csv = "absent" <=> sinkCalls # <<>>)
    /\ csv = "absent" <=> Done("remove")
    /\ csv = "absent" => Converted /\ xlsx = "present"
    /\ sinkCalls # <<>> => csv = "absent"

C16_Witness ==
    /\ mpc = "raised"
    /\ csv = "present" /\ xlsx = "absent"
    /\ Done("read_csv") /\ ~Done("to_excel")

IsKey(l) == l \in DOMAIN StaticMap

\* The inverse of the static mapping, applied to a field.
Inverse(f) == CHOOSE l \in DOMAIN StaticMap : StaticMap[l] = f

InverseAll(fields) == [i \in 1..Len(fields) |-> Inverse(fields[i])]

\* C17 as stated: in every sink exactly the source columns whose label is a
\* key of the mapping survive, each renamed to its field, and the inverse
\* mapping gives back exactly their original labels.
C17_RoundTripOriginalLabels ==
    kpc = "done" =>
        LET mapped == SelectSeq(source_columns, IsKey)
        IN  /\ df_columns = [i \in 1..Len(mapped) |-> StaticMap[mapped[i]]]
            /\ InverseAll(df_columns) = mapped

\* The label without its leading and trailing blanks.
Trimmed(l) ==
    IF \A k \in 1..Len(l) : l[k] = " " THEN <<>>
    ELSE LET NonBlank == {k \in 1..Len(l) : l[k] # " "}
             first == CHOOSE k \in NonBlank : \A m \in NonBlank : k <= m
             last == CHOOSE k \in NonBlank : \A m \in NonBlank : m <= k
         IN  SubSeq(l, first, last)

AsMatched(l) == IF mapsink = "specialists" THEN l ELSE Trimmed(l)

DistinctNormalised ==
    \A i, j \in 1..Len(source_columns) :
        i # j => AsMatched(source_columns[i]) # AsMatched(source_columns[j])

\* C17, amended: the CRM sink and the analytics upload strip the labels
\* first, the specialists upload does not; a column survives iff its label
\* so normalised is a key, it is renamed to the field of that key, and the
\* inverse mapping gives back the normalised labels of the surviving
\* columns and nothing else (column for column when no two labels
\* normalise to the same one).
C17_RoundTripNormalisedLabels ==
    kpc = "done" =>
        LET norm == [i \in 1..Len(source_columns) |-> AsMatched(source_columns[i])]
            mapped == SelectSeq(norm, IsKey)
        IN  /\ \A i \in 1..Len(df_columns) : df_columns[i] \in {StaticMap[l] : l \in DOMAIN StaticMap}
            /\ {Inverse(df_columns[i]) : i \in 1..Len(df_columns)}
                  = {mapped[i] : i \in 1..Len(mapped)}
            /\ DistinctNormalised =>
                  /\ df_columns = [i \in 1..Len(mapped) |-> StaticMap[mapped[i]]]
                  /\ InverseAll(df_columns) = mapped
            /\ mapsink = "specialists" => mapped = SelectSeq(source_columns, IsKey)

C17_Witness ==
    /\ kpc = "done"
    /\ mapsink = "crm"
    /\ source_columns = <<<<" ", "A">>, <<"U">>>>
    /\ df_columns = <<"a">>

\* No close() call raised so far: every call issued closed its resource.
NoCloseRaised ==
    \A h \in Handles : closeCalls[h] = (IF res[h] = "closed" THEN 1 ELSE 0)

\* C18: when the primitive (or the value lookup) of action k raises, no
\* action after k is executed, the exception leaves execute_actions, and
\* main catches it and calls close_browser, so that the run ends caught and,
\* unless a close() call itself raised, with no resource left open.
C18_TerminalFailureStopsRun ==
    /\ [](errAt > 0 =>
            /\ ai = errAt
            /\ exc = "exception"
            /\ \A k \in 1..Len(events) : events[k][1] <= errAt
            /\ rpc \in {"finally", "main", "done"}
            /\ rpc = "done" =>
                  /\ caught
                  /\ cbCalls >= 1
                  /\ NoCloseRaised => \A h \in Handles : res[h] # "open")
    /\ [][errAt' > 0 => events' = events \/ (errAt = 0 /\ Len(events') = Len(events) + 1)]_vars
    /\ [][(rpc = "main" /\ errAt > 0) =>
            caught' /\ cbCalls' = cbCalls + 1 /\ rpc' = "done"]_vars

C18_Witness ==
    /\ rpc = "done" /\ caught
    /\ Len(actions) = 2
    /\ errAt = 1
    /\ outLog = <<<<1, "click_element", "raise">>>>
    /\ FirstStep(actions[2]) = "click_element"
    /\ \A h \in Handles : res[h] = "closed"

\* C19: a download action whose _download_file returned no file writes an
\* error to the log, never starts _manage_uploaded_files (the only caller of
\* the sinks), and the loop goes on to the next action with no exception;
\* _manage_uploaded_files starts only for an action whose _download_file
\* returned a path.
C19_NoFileNoSink ==
    /\ [](\A i \in 1..Len(actions) :
            /\ (\E k \in 1..Len(outLog) : outLog[k] = <<i, "_download_file", "none">>) =>
                  /\ \E k \in 1..Len(rlog) : rlog[k] = <<i, "error_download_failed">>
                  /\ \A k \in 1..Len(events) :
                        events[k][1] = i => events[k][2] # "_manage_uploaded_files"
            /\ (\E k \in 1..Len(events) : events[k] = <<i, "_manage_uploaded_files", "start">>) =>
                  \E k \in 1..Len(outLog) : outLog[k] = <<i, "_download_file", "file">>)
    /\ [][(Len(outLog') > Len(outLog)
            /\ outLog'[Len(outLog')] = <<ai, "_download_file", "none">>) =>
              rpc' = "loop" /\ ai' = ai + 1 /\ exc' = "none"]_vars

C19_Witness ==
    /\ rpc = "done" /\ exc = "none"
    /\ Len(actions) = 2
    /\ outLog = <<<<1, "_download_file", "none">>, <<2, "_download_file", "file">>,
                  <<2, "_manage_uploaded_files", "ok">>>>
    /\ rlog = <<<<1, "error_download_failed">>>>

Closes(h) == Len(SelectSeq(closeLog, LAMBDA x : x = h))

\* C20: close_browser may be invoked more than once in a run (after the
\* loop, in the finally block, in main's handler), yet each of page, context,
\* browser and engine is closed at most once: a closed resource has its
\* handle cleared, a later call issues no close() on it, and no call of
\* close_browser raises.
C20_CloseIdempotent ==
    /\ [](\A h \in Handles :
            /\ Closes(h) <= 1
            /\ res[h] = "closed" => ~href[h] /\ Closes(h) = 1)
    /\ [][cbCalls' # cbCalls =>
            /\ exc' = exc
            /\ \A h \in Handles : res[h] = "closed" => closeCalls'[h] = closeCalls[h]]_vars

C20_Witness ==
    /\ rpc = "done"
    /\ cbCalls = 2
    /\ closeLog = CloseOrder
    /\ \A h \in Handles : closeCalls[h] = 1

\* C21: in a download action with a selector the request the click triggers
\* is always seen by handle_route: it is never issued after the click and
\* before the handler is installed, passing uncaptured, so the wait never
\* times out with that request gone by.
C21_ClickRequestSeen ==
    /\ clickReq # "missed"
    /\ (wpc = "returned" /\ clickReq \in {"seen", "missed"}) => returned_url # NoUrl
====
